---- MODULE Spec2Model ----
(***************************************************************************)
(* Model of the sony-camera-analyzer attribution pipeline:                  *)
(*   lib/xmlParser.cjs      (SonyXMLParser)                                 *)
(*   lib/videoMetadata.cjs  (extractMetadata)                               *)
(*   lib/thumbnail.cjs      (generateThumbnail)                             *)
(*   lib/analyzer.cjs       (findVideoFiles, buildCameraRegistry,           *)
(*                           groupByCamera, findMixedFolders,               *)
(*                           calculateStatistics, analyzeFootage)           *)
(*   main.cjs               (ipcMain.handle('analyze-footage'),             *)
(*                           ipcMain.handle('export-report'))              *)
(*   src/components/Dashboard.jsx (handleExport)                           *)
(*                                                                         *)
(* One run of analyzeFootage is a sequence of steps; every step is the     *)
(* code between two statements of analyzeFootage, in program order.        *)
(*                                                                         *)
(* JavaScript values:                                                      *)
(*   - a serial is a typed value: a string, a number, or undefined.  The   *)
(*     field k is the property key the value is coerced to when it is used *)
(*     as an object key (cameras[serial]); a Set compares the typed value. *)
(*   - an absent string (undefined) is "", which is falsy like undefined.  *)
(*   - a missing size (undefined) is NoSize.                               *)
(*   - an object reference to a media record is its index in videoMetadata.*)
(***************************************************************************)
EXTENDS Integers, Sequences, FiniteSets, TLC

\* ---------------------------------------------------------------- bounds
MaxFiles == 2
MaxXml == 3
MaxScan == 2
MaxCount == 12

\* ---------------------------------------------------------------- values
Str(key) == [t |-> "str", k |-> key]
Num(key) == [t |-> "num", k |-> key]
None == [t |-> "none", k |-> ""]

\* undefined, the empty string and the number 0 are falsy
Truthy(v) == v.t # "none" /\ v.k # "" /\ ~(v.t = "num" /\ v.k = "0")

\* a || b on serial values
Or(a, b) == IF Truthy(a) THEN a ELSE b

\* a || b on strings ("" is falsy)
OrStr(a, b) == IF a # "" THEN a ELSE b

NoSize == 0 - 1

\* (size || 0)
SizeOr0(size) == IF size = NoSize THEN 0 ELSE size

BoundedSeq(S, n) == UNION {[1..m -> S] : m \in 0..n}

RECURSIVE SumSeq(_)
SumSeq(s) == IF s = <<>> THEN 0 ELSE Head(s) + SumSeq(Tail(s))

Range(s) == {s[j] : j \in DOMAIN s}

\* ---------------------------------------------------------------- strings
\* String.prototype.toLowerCase on the strings of the model
ToLowerCase(s) ==
    CASE s = "A1.MP4" -> "a1.mp4"
      [] s = "B1.mov" -> "b1.mov"
      [] s = "C1.MP4" -> "c1.mp4"
      [] s = "C2.MXF" -> "c2.mxf"
      [] s = "NOTES.TXT" -> "notes.txt"
      [] s = ".MP4" -> ".mp4"
      [] s = ".MXF" -> ".mxf"
      [] s = ".MOV" -> ".mov"
      [] s = ".TXT" -> ".txt"
      [] s = ".XML" -> ".xml"
      [] OTHER -> s

\* path.extname
ExtName(name) ==
    CASE name \in {"A1.MP4", "C1.MP4"} -> ".MP4"
      [] name \in {"c1.mp4", "a1.mp4"} -> ".mp4"
      [] name = "B1.mov" -> ".mov"
      [] name = "C2.MXF" -> ".MXF"
      [] name = "c2.mxf" -> ".mxf"
      [] name = "C1S03.MP4" -> ".MP4"
      [] name \in {"C1.jpg", "c1.jpg"} -> ".jpg"
      [] name = "NOTES.TXT" -> ".TXT"
      [] name \in {"MEDIAPRO.XML", "BACKUP.XML", "A1M01.XML", "BROKEN.XML"} -> ".XML"
      [] OTHER -> ""

\* path.extname(p).slice(1).toUpperCase()
ExtUpper(name) ==
    CASE ExtName(name) \in {".MP4", ".mp4"} -> "MP4"
      [] ExtName(name) \in {".mov"} -> "MOV"
      [] ExtName(name) \in {".MXF", ".mxf"} -> "MXF"
      [] ExtName(name) = ".jpg" -> "JPG"
      [] ExtName(name) = ".TXT" -> "TXT"
      [] ExtName(name) = ".XML" -> "XML"
      [] OTHER -> ""

\* a path is its directory and its base name; path.join(dir, name)
Join(dir, name) == [dir |-> dir, name |-> name]

\* path.normalize(p).toLowerCase(); the paths of the program all come out of
\* path.join, which already normalizes, so path.normalize leaves them as they are
CanonicalIdentity(p) == p
Canonical(p) == [dir |-> ToLowerCase(p.dir), name |-> ToLowerCase(p.name)]

\* ---------------------------------------------------------------- the disk
Dirs == {"root", "card1"}

File(name) == [name |-> name, isDir |-> FALSE]
Dir(name) == [name |-> name, isDir |-> TRUE]

\* the entries fs.readdir can list, in listing order
AllEntries(dir) ==
    IF dir = "root"
    THEN << File("A1.MP4"), File("BROKEN.XML"), Dir("card1"), File("NOTES.TXT"),
            File("B1.mov"), File("A1M01.XML") >>
    ELSE << File("BACKUP.XML"), File("C1.MP4"), File("C2.MXF"), File("MEDIAPRO.XML") >>

VideoUniverse == { Join("root", "A1.MP4"), Join("root", "B1.mov"),
                   Join("card1", "C1.MP4"), Join("card1", "C2.MXF") }

\* fs.stat(p).size
StatSize(p) ==
    CASE p.name = "A1.MP4" -> 1
      [] p.name = "B1.mov" -> 2
      [] p.name = "C1.MP4" -> 4
      [] p.name = "C2.MXF" -> 8
      [] OTHER -> 16

\* fs.stat(p).birthtime.toISOString()
StatBirthtime(p) ==
    CASE p.name = "A1.MP4" -> "2024-01-01T00:00:00.000Z"
      [] p.name = "B1.mov" -> "2024-01-02T00:00:00.000Z"
      [] OTHER -> "2024-01-03T00:00:00.000Z"

\* ---------------------------------------------------------------- xmlParser.cjs
\* String.prototype.replace(/^\.\//, '').replace(/^\.\\/, '') on the URIs of the model
CleanUri(uri) ==
    CASE uri = "./c1.mp4" -> "c1.mp4"
      [] uri = "./C2.MXF" -> "C2.MXF"
      [] OTHER -> uri

\* uri.endsWith('.MP4') || ... || uri.endsWith('.mov')
EndsWithVideoExt(uri) ==
    ExtName(CleanUri(uri)) \in {".MP4", ".MXF", ".MOV", ".mp4", ".mxf", ".mov"}

Material(uri, proxy) == [uri |-> uri, proxy |-> proxy]

\* the top-level shapes extractCameraInfo knows, by the element that marks them
Shapes == {"MediaProfile", "cueupinfo", "DiscMeta", "NonRealTimeMeta",
           "XAVCMetadata", "Clip"}

\* a descriptor file: its path and the tree XMLParser.parse gives for it.
\* The domain of serial (and of model) is the set of shapes whose structural
\* test passes on the tree; serial[s] and model[s] are the identity fields at
\* the place shape s keeps them; materials is MediaProfile.Contents.Material.
\* malformed is a file fs.readFile or XMLParser.parse throws on.
Doc(shape, file, serial, model, materials) ==
    [file |-> file, malformed |-> shape = "malformed",
     serial |-> [s \in {shape} \cap Shapes |-> serial],
     model |-> [s \in {shape} \cap Shapes |-> model],
     materials |-> materials]

\* the descriptor files that can be on the disk of a run
Descriptors ==
    { Doc("MediaProfile", Join("card1", "MEDIAPRO.XML"), Str("S1"), "FX6",
          << Material("./c1.mp4", "") >>),
      Doc("MediaProfile", Join("card1", "BACKUP.XML"), Num("7"), "",
          << Material("C1.MP4", "C1.jpg"), Material("./C2.MXF", "") >>),
      Doc("NonRealTimeMeta", Join("root", "A1M01.XML"), Str("S1"), "FX3", <<>>),
      Doc("malformed", Join("root", "BROKEN.XML"), None, "", <<>>) }

\* JavaScript null for an identity record
Null == [serialNumber |-> None, model |-> "", sourceFile |-> Join("", ""),
         videoFiles |-> <<>>]

\* the exception fs.readFile or XMLParser.parse rejects with
Raised == [serialNumber |-> None, model |-> "#raised", sourceFile |-> Join("", ""),
           videoFiles |-> <<>>]

\* String(serial)
String(v) == Str(v.k)

\* the flatMap over the materials, then the map that resolves each URI
\* against the descriptor's directory
MaterialFiles(m) ==
    (IF m.uri # "" /\ EndsWithVideoExt(m.uri) THEN << m.uri >> ELSE <<>>)
    \o (IF m.proxy # "" THEN << m.proxy >> ELSE <<>>)

RECURSIVE MaterialUris(_)
MaterialUris(materials) ==
    IF materials = <<>> THEN <<>>
    ELSE MaterialFiles(Head(materials)) \o MaterialUris(Tail(materials))

ResolveUris(uris, xmlDir) ==
    [j \in DOMAIN uris |-> Join(xmlDir, CleanUri(uris[j]))]

\* the branch of the if / else-if chain that is taken: the first shape, in
\* the order of the chain, whose structural test passes
MatchedDeviceFirst(present) ==
    IF "NonRealTimeMeta" \in present THEN "NonRealTimeMeta"
    ELSE IF "XAVCMetadata" \in present THEN "XAVCMetadata"
    ELSE IF "Clip" \in present THEN "Clip"
    ELSE IF "MediaProfile" \in present THEN "MediaProfile"
    ELSE IF "cueupinfo" \in present THEN "cueupinfo"
    ELSE IF "DiscMeta" \in present THEN "DiscMeta"
    ELSE "unknown"
Matched(present) ==
    IF "MediaProfile" \in present THEN "MediaProfile"
    ELSE IF "cueupinfo" \in present THEN "cueupinfo"
    ELSE IF "DiscMeta" \in present THEN "DiscMeta"
    ELSE IF "NonRealTimeMeta" \in present THEN "NonRealTimeMeta"
    ELSE IF "XAVCMetadata" \in present THEN "XAVCMetadata"
    ELSE IF "Clip" \in present THEN "Clip"
    ELSE "unknown"

\* lines 180-188: if (serial) return the record, else null
ReturnsRecordIfAnyField(serial, model, videoFiles) ==
    Truthy(serial) \/ model # "" \/ videoFiles # <<>>
ReturnsRecord(serial, model, videoFiles) == Truthy(serial)

extractCameraInfo(xmlData) ==
    LET shape == Matched(DOMAIN xmlData.serial)
        isProfile == shape = "MediaProfile"
        isDevice == shape \in {"NonRealTimeMeta", "XAVCMetadata", "Clip"}
        serial == IF isProfile \/ isDevice THEN xmlData.serial[shape] ELSE None
        model == IF isProfile \/ isDevice THEN xmlData.model[shape] ELSE ""
        videoFiles == IF isProfile
                      THEN ResolveUris(MaterialUris(xmlData.materials), xmlData.file.dir)
                      ELSE <<>>
    IN  IF shape \in {"cueupinfo", "DiscMeta"} THEN Null
        ELSE IF ReturnsRecord(serial, model, videoFiles)
             THEN [serialNumber |-> String(serial),
                   model |-> OrStr(model, "Unknown Model"),
                   sourceFile |-> xmlData.file,
                   videoFiles |-> videoFiles]
             ELSE Null

\* the body of the try of parseXMLFile: readFile, parse, extractCameraInfo
TryParse(doc) == IF doc.malformed THEN Raised ELSE extractCameraInfo(doc)

\* parseXMLFile: the catch turns an exception into null
parseXMLFileRethrows(doc) == TryParse(doc)
parseXMLFile(doc) ==
    LET info == TryParse(doc)
    IN  IF info = Raised THEN Null ELSE info

\* the entries that exist: files is the set of the paths of the files on disk
readdir(directory, files) ==
    SelectSeq(AllEntries(directory),
              LAMBDA e : e.isDir \/ Join(directory, e.name) \in files)

\* the closure scan of findXMLFiles; a directory fs.readdir throws on
\* contributes nothing (the catch) and the caller's loop goes on
RECURSIVE xmlScanEntries(_, _, _, _)
xmlScanDir(directory, files, canRead) ==
    IF directory \notin canRead THEN <<>>
    ELSE xmlScanEntries(directory, readdir(directory, files), files, canRead)
xmlScanEntries(directory, entries, files, canRead) ==
    IF entries = <<>> THEN <<>>
    ELSE LET entry == Head(entries)
             fullPath == Join(directory, entry.name)
             here == IF entry.isDir THEN xmlScanDir(entry.name, files, canRead)
                     ELSE IF ToLowerCase(ExtName(entry.name)) = ".xml"
                          THEN << fullPath >>
                          ELSE <<>>
         IN  here \o xmlScanEntries(directory, Tail(entries), files, canRead)

findXMLFiles(directory, files, canRead) == xmlScanDir(directory, files, canRead)

\* ---------------------------------------------------------------- analyzer.cjs
\* obj[key] = value on a JavaScript object used as a map
Put(obj, key, value) ==
    [x \in DOMAIN obj \cup {key} |-> IF x = key THEN value ELSE obj[x]]

EmptyObj == [x \in {} |-> None]

RECURSIVE MapVideoFilesFirstWins(_, _, _)
MapVideoFilesFirstWins(map, videoFiles, serialNumber) ==
    IF videoFiles = <<>> THEN map
    ELSE MapVideoFilesFirstWins(
             IF Canonical(Head(videoFiles)) \in DOMAIN map THEN map
             ELSE Put(map, Canonical(Head(videoFiles)), serialNumber),
             Tail(videoFiles), serialNumber)

\* lines 43-49: the path index entries of one identity record
RECURSIVE MapVideoFiles(_, _, _)
MapVideoFiles(map, videoFiles, serialNumber) ==
    IF videoFiles = <<>> THEN map
    ELSE MapVideoFiles(Put(map, Canonical(Head(videoFiles)), serialNumber),
                       Tail(videoFiles), serialNumber)

RECURSIVE buildCameraRegistry(_, _, _)
buildCameraRegistry(xmlData, registry, videoToCameraMap) ==
    IF xmlData = <<>>
    THEN [registry |-> registry, videoToCameraMap |-> videoToCameraMap]
    ELSE LET data == Head(xmlData)
         IN  IF Truthy(data.serialNumber)
             THEN buildCameraRegistry(Tail(xmlData),
                      Put(registry, data.serialNumber.k, data),
                      MapVideoFiles(videoToCameraMap, data.videoFiles, data.serialNumber))
             ELSE buildCameraRegistry(Tail(xmlData), registry, videoToCameraMap)

videoExtensions == {".mp4", ".mov", ".mxf"}

\* the closure scan of findVideoFiles; a directory fs.readdir throws on
\* contributes nothing (the catch) and the caller's loop goes on
RECURSIVE scanEntries(_, _, _, _)
RECURSIVE scanEntriesStopsAtFailure(_, _, _, _)
scanDir(directory, files, canRead) ==
    IF directory \notin canRead THEN <<>>
    ELSE scanEntries(directory, readdir(directory, files), files, canRead)
scanEntriesStopsAtFailure(directory, entries, files, canRead) ==
    IF entries = <<>> THEN <<>>
    ELSE LET entry == Head(entries)
             fullPath == Join(directory, entry.name)
             here == IF entry.isDir THEN scanDir(entry.name, files, canRead)
                     ELSE IF ToLowerCase(ExtName(entry.name)) \in videoExtensions
                          THEN << fullPath >>
                          ELSE <<>>
         IN  IF entry.isDir /\ entry.name \notin canRead THEN <<>>
             ELSE here \o scanEntriesStopsAtFailure(directory, Tail(entries),
                                                    files, canRead)
scanEntries(directory, entries, files, canRead) ==
    IF entries = <<>> THEN <<>>
    ELSE LET entry == Head(entries)
             fullPath == Join(directory, entry.name)
             here == IF entry.isDir THEN scanDir(entry.name, files, canRead)
                     ELSE IF ToLowerCase(ExtName(entry.name)) \in videoExtensions
                          THEN << fullPath >>
                          ELSE <<>>
         IN  here \o scanEntries(directory, Tail(entries), files, canRead)

findVideoFiles(dir, files, canRead) == scanDir(dir, files, canRead)

\* ---------------------------------------------------------------- videoMetadata.cjs
\* what exiftool.read and fs.stat give for one file; throws is either of
\* them rejecting
Exif(throws, SerialNumber, InternalSerialNumber, Model, CameraModelName, FileType, CreateDate) ==
    [throws |-> throws, SerialNumber |-> SerialNumber,
     InternalSerialNumber |-> InternalSerialNumber, Model |-> Model,
     CameraModelName |-> CameraModelName, FileType |-> FileType,
     CreateDate |-> CreateDate]

ExifReads ==
    { Exif(TRUE, None, None, "", "", "", ""),
      Exif(FALSE, None, None, "", "", "MP4", ""),
      Exif(FALSE, Num("7"), None, "", "", "MP4", "2024:05:01 10:00:00"),
      Exif(FALSE, None, Str("S3"), "", "FX3", "", ""),
      Exif(FALSE, Str("S1"), Str("S3"), "FX30", "", "MP4", "2024:05:01 10:00:00"),
      Exif(FALSE, None, None, "FX30", "", "MP4", "") }

extractMetadataDropsFailed(filePath, metadata) ==
    IF metadata.throws
    THEN << >>
    ELSE << [filePath |-> filePath, fileName |-> filePath.name,
             serialNumber |-> Or(metadata.SerialNumber, metadata.InternalSerialNumber),
             model |-> OrStr(metadata.Model, metadata.CameraModelName),
             created |-> OrStr(metadata.CreateDate, StatBirthtime(filePath)),
             size |-> StatSize(filePath),
             format |-> OrStr(metadata.FileType, ExtUpper(filePath.name)),
             error |-> FALSE, thumbnail |-> ""] >>

\* the record extractMetadata resolves to, as a sequence of one record (an
\* empty sequence would be a falsy result, which analyzeFootage does not push)
extractMetadata(filePath, metadata) ==
    IF metadata.throws
    THEN << [filePath |-> filePath, fileName |-> filePath.name,
             serialNumber |-> None, model |-> "", created |-> "", size |-> NoSize,
             format |-> "", error |-> TRUE, thumbnail |-> ""] >>
    ELSE << [filePath |-> filePath, fileName |-> filePath.name,
             serialNumber |-> Or(metadata.SerialNumber, metadata.InternalSerialNumber),
             model |-> OrStr(metadata.Model, metadata.CameraModelName),
             created |-> OrStr(metadata.CreateDate, StatBirthtime(filePath)),
             size |-> StatSize(filePath),
             format |-> OrStr(metadata.FileType, ExtUpper(filePath.name)),
             error |-> FALSE, thumbnail |-> ""] >>

\* ---------------------------------------------------------------- thumbnail.cjs
\* the ways generateThumbnail ends: an existing thumbnail next to the video is
\* read, a generated one is read from the cache directory, ffmpeg writes a new
\* one, or any of these fails (caught, or ffmpeg's 'error' event): null
ThumbOutcomes == {"existing", "cached", "generated", "failed"}

generateThumbnail(videoPath, outcome) ==
    IF outcome = "failed" THEN "" ELSE "data:image/jpeg;base64"

\* `${path.basename(videoPath, path.extname(videoPath))}_thumb.jpg`
ThumbFileName(videoPath) ==
    CASE videoPath.name = "A1.MP4" -> "A1_thumb.jpg"
      [] videoPath.name = "B1.mov" -> "B1_thumb.jpg"
      [] videoPath.name = "C1.MP4" -> "C1_thumb.jpg"
      [] videoPath.name = "C2.MXF" -> "C2_thumb.jpg"
      [] OTHER -> "_thumb.jpg"

\* the folder ffmpeg's screenshots() writes to: THUMBNAIL_DIR, which is
\* path.join(os.tmpdir(), 'sony-camera-analyzer-thumbs'), a directory that is
\* not one of the analyzed tree
ThumbFolderBesideVideo(videoPath) == videoPath.dir
ThumbFolder(videoPath) == "tmpdir/sony-camera-analyzer-thumbs"

\* the files a call of generateThumbnail creates
ThumbWrites(videoPath, outcome) ==
    IF outcome = "generated"
    THEN {Join(ThumbFolder(videoPath), ThumbFileName(videoPath))}
    ELSE {}

\* ---------------------------------------------------------------- groupByCamera
\* one iteration of the loop of groupByCamera, on the record at index idx.
\* cameras is the object under construction, as the sequence of its values in
\* insertion order, each with the property key it is stored under.

\* line 64: is the path index consulted for this record
ConsultsMap(video) == ~Truthy(video.serialNumber) /\ video.filePath # Join("", "")

LookupIgnoringEmbedded(video, videoToCameraMap) ==
    LET normalizedPath == Canonical(video.filePath)
    IN  IF normalizedPath \in DOMAIN videoToCameraMap
        THEN videoToCameraMap[normalizedPath]
        ELSE video.serialNumber

ResolveSerialSkipsFailed(video, videoToCameraMap) ==
    IF video.error THEN None
    ELSE IF ConsultsMap(video)
         THEN LET normalizedPath == Canonical(video.filePath)
              IN  IF normalizedPath \in DOMAIN videoToCameraMap
                  THEN videoToCameraMap[normalizedPath]
                  ELSE None
         ELSE video.serialNumber

\* lines 61-66: the serial the record is attributed to
ResolveSerial(video, videoToCameraMap) ==
    IF ConsultsMap(video)
    THEN LET normalizedPath == Canonical(video.filePath)
         IN  IF normalizedPath \in DOMAIN videoToCameraMap
             THEN videoToCameraMap[normalizedPath]
             ELSE None
    ELSE video.serialNumber

UpdateVideoKeepsRecord(video, serial, cameraRegistry) == video

\* lines 68-75: the record after the update through the XML mapping
UpdateVideo(video, serial, cameraRegistry) ==
    IF ConsultsMap(video) /\ Truthy(serial)
    THEN [video EXCEPT !.serialNumber = serial,
                       !.model = IF serial.k \in DOMAIN cameraRegistry
                                 THEN cameraRegistry[serial.k].model
                                 ELSE @]
    ELSE video

HasKey(cameras, key) == \E j \in DOMAIN cameras : cameras[j].key = key

\* lines 79-86: cameras[serial] is created when it is not there
EnsureGroup(cameras, serial, video, cameraRegistry) ==
    IF HasKey(cameras, serial.k) THEN cameras
    ELSE Append(cameras,
                [key |-> serial.k, id |-> serial,
                 model |-> OrStr(video.model,
                                 IF serial.k \in DOMAIN cameraRegistry
                                 THEN cameraRegistry[serial.k].model
                                 ELSE "Unknown Model"),
                 files |-> <<>>, totalSize |-> 0])

PushFileRawSize(cameras, serial, idx, video) ==
    [j \in DOMAIN cameras |->
        IF cameras[j].key = serial.k
        THEN [cameras[j] EXCEPT !.files = Append(@, idx),
                                !.totalSize = @ + video.size]
        ELSE cameras[j]]

\* lines 87-88
PushFile(cameras, serial, idx, video) ==
    [j \in DOMAIN cameras |->
        IF cameras[j].key = serial.k
        THEN [cameras[j] EXCEPT !.files = Append(@, idx),
                                !.totalSize = @ + SizeOr0(video.size)]
        ELSE cameras[j]]

\* line 90: unknown.push(video)
PushUnknownFirst(unknown, idx) == << idx >> \o unknown
PushUnknown(unknown, idx) == Append(unknown, idx)

\* line 78: does the record go to a camera group (else to unknown)
GoesToGroupAlways(serial) == TRUE
GoesToGroup(serial) == Truthy(serial)

\* Object.values(cameras): the keys that are array indices come first, in
\* ascending numeric order, then the other string keys in insertion order
IsArrayIndex(key) == key \in {"7", "12"}
KeyNum(key) == IF key = "7" THEN 7 ELSE IF key = "12" THEN 12 ELSE 0 - 1

RECURSIVE SortByKeyNum(_)
SortByKeyNum(groups) ==
    IF groups = {} THEN <<>>
    ELSE LET least == CHOOSE g \in groups :
                          \A h \in groups : KeyNum(g.key) <= KeyNum(h.key)
         IN  << least >> \o SortByKeyNum(groups \ {least})

ObjectValues(cameras) ==
    SortByKeyNum({cameras[j] : j \in {x \in DOMAIN cameras : IsArrayIndex(cameras[x].key)}})
    \o SelectSeq(cameras, LAMBDA g : ~IsArrayIndex(g.key))

\* ---------------------------------------------------------------- findMixedFolders
\* folderMap is the object folder -> Set, as the sequence of its entries in
\* insertion order; a Set is the sequence of its members in insertion order
\* and holds typed values (a number and a string are two members)
SetAdd(members, v) == IF v \in Range(members) THEN members ELSE Append(members, v)

FolderAdd(folderMap, folder, serial) ==
    IF \E j \in DOMAIN folderMap : folderMap[j].folder = folder
    THEN [j \in DOMAIN folderMap |->
            IF folderMap[j].folder = folder
            THEN [folderMap[j] EXCEPT !.serials = SetAdd(@, serial)]
            ELSE folderMap[j]]
    ELSE Append(folderMap, [folder |-> folder, serials |-> << serial >>])

RECURSIVE BuildFolderMap(_, _)
BuildFolderMap(videos, folderMap) ==
    IF videos = <<>> THEN folderMap
    ELSE LET video == Head(videos)
         IN  IF ~Truthy(video.serialNumber)
             THEN BuildFolderMap(Tail(videos), folderMap)
             ELSE BuildFolderMap(Tail(videos),
                                 FolderAdd(folderMap, video.filePath.dir,
                                           video.serialNumber))

\* line 112: serials.size > 1
IsMixedAnySize(serials) == Len(serials) > 0
IsMixed(serials) == Len(serials) > 1

findMixedFolders(videos) ==
    LET folderMap == BuildFolderMap(videos, <<>>)
        mixedEntries == SelectSeq(folderMap, LAMBDA e : IsMixed(e.serials))
    IN  [j \in DOMAIN mixedEntries |->
            [folder |-> mixedEntries[j].folder,
             cameraCount |-> Len(mixedEntries[j].serials),
             cameras |-> mixedEntries[j].serials]]

\* ---------------------------------------------------------------- calculateStatistics
\* line 129: video.format || 'UNKNOWN'
FormatKeyByExtension(video) == OrStr(video.format, ExtUpper(video.fileName))
FormatKey(video) == OrStr(video.format, "UNKNOWN")

RECURSIVE CountFormats(_, _)
CountFormats(videos, formatCounts) ==
    IF videos = <<>> THEN formatCounts
    ELSE LET fmt == FormatKey(Head(videos))
         IN  CountFormats(Tail(videos),
                 Put(formatCounts, fmt,
                     (IF fmt \in DOMAIN formatCounts THEN formatCounts[fmt] ELSE 0) + 1))

TotalFilesOfGroups(cameras, videos) ==
    SumSeq([j \in DOMAIN cameras |-> Len(cameras[j].files)])
TotalFiles(cameras, videos) == Len(videos)

\* lines 124, 127-129: totalSize += (video.size || 0) over videoMetadata
TotalSizeOfGroups(cameras, videos) ==
    SumSeq([j \in DOMAIN cameras |-> cameras[j].totalSize])
TotalSize(cameras, videos) ==
    SumSeq([j \in DOMAIN videos |-> SizeOr0(videos[j].size)])

calculateStatistics(cameras, videos) ==
    [totalFiles |-> TotalFiles(cameras, videos),
     totalSize |-> TotalSize(cameras, videos),
     formatDistribution |-> CountFormats(videos, EmptyObj)]

\* ---------------------------------------------------------------- analyzeFootage
VARIABLES
    canRead,           \* the directories fs.readdir can list
    thumbDir,          \* the files of THUMBNAIL_DIR: name -> the video the frame is of
    disk,              \* the video files that exist under the root
    xmlDisk,           \* the descriptor files that exist under the root
    rootWrites,        \* the files the run has created under the root
    xmlFiles,          \* result of findXMLFiles, each file with its content
    xi,                \* number of files parseAllXMLInFolder has been through
    pc,                \* the statement analyzeFootage is at
    events,            \* the progress events sent through progressCallback, in order
    xmlData,           \* result of parseAllXMLInFolder
    cameraRegistry,    \* registry of buildCameraRegistry: serial key -> record
    videoToCameraMap,  \* canonical path -> serial
    videoFiles,        \* result of findVideoFiles
    i,                 \* loop index of the extraction loop
    videoMetadata,     \* the media records, by reference (index)
    gi,                \* number of records groupByCamera has been through
    cameras,           \* the object cameras of groupByCamera
    unknown,           \* the array unknown of groupByCamera
    lookups,           \* the records the path index was consulted for
    grouped,           \* Object.values(cameras), what groupByCamera returns
    mixedFolders,      \* result of findMixedFolders
    stats,             \* result of calculateStatistics
    result,            \* << the AnalysisResult >> once returned, else << >>
    reply,             \* what the IPC handler answers
    report             \* what handleExport passed to exportReport, << >> before

vars == << canRead, thumbDir, disk, xmlDisk, rootWrites, xmlFiles, xi, report, pc, events, xmlData, cameraRegistry, videoToCameraMap,
           videoFiles, i, videoMetadata, gi, cameras, unknown, lookups, grouped,
           mixedFolders, stats, result, reply >>

NoStats == [totalFiles |-> 0, totalSize |-> 0, formatDistribution |-> EmptyObj]

Init ==
    /\ canRead \in SUBSET Dirs
    /\ thumbDir = EmptyObj
    /\ disk \in {d \in SUBSET VideoUniverse : Cardinality(d) <= MaxFiles}
    /\ xmlDisk \in {d \in SUBSET Descriptors : Cardinality(d) <= MaxXml}
    /\ rootWrites = {}
    /\ xmlFiles = <<>>
    /\ xi = 0
    /\ report = <<>>
    /\ pc = "start"
    /\ events = <<>>
    /\ xmlData = <<>>
    /\ cameraRegistry = EmptyObj
    /\ videoToCameraMap = EmptyObj
    /\ videoFiles = <<>>
    /\ i = 0
    /\ videoMetadata = <<>>
    /\ gi = 0
    /\ cameras = <<>>
    /\ unknown = <<>>
    /\ lookups = {}
    /\ grouped = <<>>
    /\ mixedFolders = <<>>
    /\ stats = NoStats
    /\ result = <<>>
    /\ reply = "none"

\* progressCallback({step, progress}): main.cjs forwards the event with
\* event.sender.send, which throws when the window is gone; analyzeFootage
\* rethrows (line 213) and the IPC handler answers success: false
Emit(event, next) ==
    \/ /\ events' = Append(events, event)
       /\ pc' = next
       /\ reply' = reply
    \/ /\ events' = events
       /\ pc' = "failed"
       /\ reply' = "failure"

\* the currentFile of an event that has none
NoFile == Join("", "")

ProgressCallback(step, progress, next) ==
    Emit([step |-> step, progress |-> progress, currentFile |-> NoFile], next)

\* 20 + Math.round(((i + 1) / videoFiles.length) * 60), index is i (0-based)
PercentageFloor(index, length) == 20 + ((60 * (index + 1)) \div length)
PercentageOfHundred(index, length) == ((200 * (index + 1) + length) \div (2 * length))
Percentage(index, length) == 20 + ((120 * (index + 1) + length) \div (2 * length))

\* line 145
StepXml ==
    /\ pc = "start"
    /\ ProgressCallback("xml", 0, "parseXML")
    /\ UNCHANGED << canRead, thumbDir, disk, xmlDisk, xmlFiles, xi, rootWrites, report, xmlData, cameraRegistry, videoToCameraMap,
                    videoFiles, i, videoMetadata, gi, cameras, unknown, lookups,
                    grouped, mixedFolders, stats, result >>

\* the paths of the files that exist under the root
FilesOnDisk(videos, descriptors) ==
    videos \cup {d.file : d \in descriptors} \cup {Join("root", "NOTES.TXT")}

\* line 146, xmlParser lines 192-196: parseAllXMLInFolder walks the tree for
\* the descriptor files and starts with no results
StepFindXml ==
    /\ pc = "parseXML"
    /\ LET found == findXMLFiles("root", FilesOnDisk(disk, xmlDisk), canRead)
       IN  xmlFiles' = [j \in DOMAIN found |->
                          CHOOSE d \in xmlDisk : d.file = found[j]]
    /\ xi' = 0
    /\ xmlData' = <<>>
    /\ pc' = "parseLoop"
    /\ UNCHANGED << canRead, thumbDir, disk, xmlDisk, rootWrites, report, events,
                    cameraRegistry, videoToCameraMap, videoFiles, i,
                    videoMetadata, gi, cameras, unknown, lookups, grouped,
                    mixedFolders, stats, result, reply >>

\* xmlParser lines 197-207: one iteration of the loop of parseAllXMLInFolder;
\* an exception out of parseXMLFile would reject the whole call
ParseOneFile ==
    /\ pc = "parseLoop"
    /\ xi < Len(xmlFiles)
    /\ LET info == parseXMLFile(xmlFiles[xi + 1])
       IN  IF info = Raised
           THEN /\ pc' = "failed"
                /\ reply' = "failure"
                /\ UNCHANGED << xmlData, xi >>
           ELSE /\ xmlData' = IF info # Null THEN Append(xmlData, info) ELSE xmlData
                /\ xi' = xi + 1
                /\ UNCHANGED << pc, reply >>
    /\ UNCHANGED << canRead, thumbDir, disk, xmlDisk, rootWrites, report, xmlFiles, events,
                    cameraRegistry, videoToCameraMap, videoFiles, i,
                    videoMetadata, gi, cameras, unknown, lookups, grouped,
                    mixedFolders, stats, result >>

\* xmlParser line 210: return results
ParseReturn ==
    /\ pc = "parseLoop"
    /\ xi >= Len(xmlFiles)
    /\ pc' = "registry"
    /\ UNCHANGED << canRead, thumbDir, disk, xmlDisk, rootWrites, report, xmlFiles, xi,
                    events, xmlData, cameraRegistry, videoToCameraMap, videoFiles,
                    i, videoMetadata, gi, cameras, unknown, lookups, grouped,
                    mixedFolders, stats, result, reply >>

\* line 149
StepRegistry ==
    /\ pc = "registry"
    /\ LET built == buildCameraRegistry(xmlData, EmptyObj, EmptyObj)
       IN  /\ cameraRegistry' = built.registry
           /\ videoToCameraMap' = built.videoToCameraMap
    /\ pc' = "emitScan"
    /\ UNCHANGED << canRead, thumbDir, disk, xmlDisk, xmlFiles, xi, rootWrites, report, events, xmlData, videoFiles, i, videoMetadata,
                    gi, cameras, unknown, lookups, grouped, mixedFolders, stats,
                    result, reply >>

StepScanTaggedXml ==
    /\ pc = "emitScan"
    /\ ProgressCallback("xml", 10, "findVideos")
    /\ UNCHANGED << canRead, thumbDir, disk, xmlDisk, xmlFiles, xi, rootWrites, report, xmlData, cameraRegistry, videoToCameraMap,
                    videoFiles, i, videoMetadata, gi, cameras, unknown, lookups,
                    grouped, mixedFolders, stats, result >>

\* line 154
StepScan ==
    /\ pc = "emitScan"
    /\ ProgressCallback("scan", 10, "findVideos")
    /\ UNCHANGED << canRead, thumbDir, disk, xmlDisk, xmlFiles, xi, rootWrites, report, xmlData, cameraRegistry, videoToCameraMap,
                    videoFiles, i, videoMetadata, gi, cameras, unknown, lookups,
                    grouped, mixedFolders, stats, result >>

\* line 155
StepFindVideos ==
    /\ pc = "findVideos"
    /\ videoFiles' = findVideoFiles("root", FilesOnDisk(disk, xmlDisk), canRead)
    /\ pc' = "emitExtract"
    /\ UNCHANGED << canRead, thumbDir, disk, xmlDisk, xmlFiles, xi, rootWrites, report, events, xmlData, cameraRegistry,
                    videoToCameraMap, i, videoMetadata, gi, cameras, unknown,
                    lookups, grouped, mixedFolders, stats, result, reply >>

\* lines 159-160
StepExtract ==
    /\ pc = "emitExtract"
    /\ ProgressCallback("extract", 20, "extract")
    /\ i' = 0
    /\ videoMetadata' = <<>>
    /\ UNCHANGED << canRead, thumbDir, disk, xmlDisk, xmlFiles, xi, rootWrites, report, xmlData, cameraRegistry, videoToCameraMap,
                    videoFiles, gi, cameras, unknown, lookups, grouped,
                    mixedFolders, stats, result >>

\* lines 162-183: one iteration of the extraction loop
ExtractOne ==
    /\ pc = "extract"
    /\ i < Len(videoFiles)
    /\ \E read \in ExifReads, outcome \in ThumbOutcomes :
          LET metadata == extractMetadata(videoFiles[i + 1], read)
              thumbnailPath == generateThumbnail(videoFiles[i + 1], outcome)
          IN  /\ videoMetadata' =
                    IF metadata # <<>>
                    THEN Append(videoMetadata,
                                [metadata[1] EXCEPT !.thumbnail = thumbnailPath])
                    ELSE videoMetadata
              /\ rootWrites' = rootWrites \cup
                    {f \in ThumbWrites(videoFiles[i + 1], outcome) : f.dir \in Dirs}
    /\ Emit([step |-> "extract", progress |-> Percentage(i, Len(videoFiles)),
             currentFile |-> videoFiles[i + 1]], "extract")
    /\ i' = i + 1
    /\ UNCHANGED << canRead, thumbDir, disk, xmlDisk, xmlFiles, xi, report, xmlData,
                    cameraRegistry, videoToCameraMap, videoFiles, gi, cameras,
                    unknown, lookups, grouped, mixedFolders, stats, result >>

\* line 187, and the entry of groupByCamera (lines 57-58)
StepGroup ==
    /\ pc = "extract"
    /\ i >= Len(videoFiles)
    /\ ProgressCallback("group", 85, "group")
    /\ gi' = 0
    /\ cameras' = <<>>
    /\ unknown' = <<>>
    /\ UNCHANGED << canRead, thumbDir, disk, xmlDisk, xmlFiles, xi, rootWrites, report, xmlData, cameraRegistry, videoToCameraMap,
                    videoFiles, i, videoMetadata, lookups, grouped, mixedFolders,
                    stats, result >>

\* lines 60-92: one iteration of the loop of groupByCamera
GroupOne ==
    /\ pc = "group"
    /\ gi < Len(videoMetadata)
    /\ LET idx == gi + 1
           video == videoMetadata[idx]
           serial == ResolveSerial(video, videoToCameraMap)
           updated == UpdateVideo(video, serial, cameraRegistry)
       IN  /\ lookups' = IF ConsultsMap(video) THEN lookups \cup {idx} ELSE lookups
           /\ videoMetadata' = [videoMetadata EXCEPT ![idx] = updated]
           /\ IF GoesToGroup(serial)
              THEN /\ cameras' = PushFile(EnsureGroup(cameras, serial, updated,
                                                      cameraRegistry),
                                          serial, idx, updated)
                   /\ unknown' = unknown
              ELSE /\ cameras' = cameras
                   /\ unknown' = PushUnknown(unknown, idx)
    /\ gi' = gi + 1
    /\ UNCHANGED << canRead, thumbDir, disk, xmlDisk, xmlFiles, xi, rootWrites, report, pc, events, xmlData, cameraRegistry,
                    videoToCameraMap, videoFiles, i, grouped, mixedFolders, stats,
                    result, reply >>

\* line 94
GroupReturn ==
    /\ pc = "group"
    /\ gi >= Len(videoMetadata)
    /\ grouped' = ObjectValues(cameras)
    /\ pc' = "mixed"
    /\ UNCHANGED << canRead, thumbDir, disk, xmlDisk, xmlFiles, xi, rootWrites, report, events, xmlData, cameraRegistry,
                    videoToCameraMap, videoFiles, i, videoMetadata, gi, cameras,
                    unknown, lookups, mixedFolders, stats, result, reply >>

\* line 191
StepMixed ==
    /\ pc = "mixed"
    /\ mixedFolders' = findMixedFolders(videoMetadata)
    /\ pc' = "stats"
    /\ UNCHANGED << canRead, thumbDir, disk, xmlDisk, xmlFiles, xi, rootWrites, report, events, xmlData, cameraRegistry,
                    videoToCameraMap, videoFiles, i, videoMetadata, gi, cameras,
                    unknown, lookups, grouped, stats, result, reply >>

\* line 194
StepStats ==
    /\ pc = "stats"
    /\ stats' = calculateStatistics(grouped, videoMetadata)
    /\ pc' = "emitDone"
    /\ UNCHANGED << canRead, thumbDir, disk, xmlDisk, xmlFiles, xi, rootWrites, report, events, xmlData, cameraRegistry,
                    videoToCameraMap, videoFiles, i, videoMetadata, gi, cameras,
                    unknown, lookups, grouped, mixedFolders, result, reply >>

StepDoneEmitsThenFails ==
    /\ pc = "emitDone"
    /\ \/ /\ events' = Append(events, [step |-> "done", progress |-> 100,
                                        currentFile |-> NoFile])
          /\ pc' = "returned"
          /\ result' = << [cameras |-> grouped, unknownFiles |-> unknown,
                           mixedFolders |-> mixedFolders, stats |-> stats] >>
          /\ reply' = "success"
       \/ /\ events' = Append(events, [step |-> "done", progress |-> 100,
                                        currentFile |-> NoFile])
          /\ pc' = "failed"
          /\ result' = result
          /\ reply' = "failure"
    /\ UNCHANGED << canRead, thumbDir, disk, xmlDisk, xmlFiles, xi, rootWrites, report, xmlData, cameraRegistry, videoToCameraMap,
                    videoFiles, i, videoMetadata, gi, cameras, unknown, lookups,
                    grouped, mixedFolders, stats >>

\* lines 202-209, and main.cjs line 83
StepDone ==
    /\ pc = "emitDone"
    /\ \/ /\ events' = Append(events, [step |-> "done", progress |-> 100,
                                        currentFile |-> NoFile])
          /\ pc' = "returned"
          /\ result' = << [cameras |-> grouped, unknownFiles |-> unknown,
                           mixedFolders |-> mixedFolders, stats |-> stats] >>
          /\ reply' = "success"
       \/ /\ events' = events
          /\ pc' = "failed"
          /\ result' = result
          /\ reply' = "failure"
    /\ UNCHANGED << canRead, thumbDir, disk, xmlDisk, xmlFiles, xi, rootWrites, report, xmlData, cameraRegistry, videoToCameraMap,
                    videoFiles, i, videoMetadata, gi, cameras, unknown, lookups,
                    grouped, mixedFolders, stats >>

\* ---------------------------------------------------------------- Dashboard.jsx
\* `${value}` in a template literal
Text(value) == IF value = "" THEN "undefined" ELSE value
SizeText(size) == IF size = NoSize THEN "undefined" ELSE ToString(size)

\* one line of the CSV, as its fields in order
CsvRow(cam, f) ==
    [cameraId |-> cam.id.k, model |-> cam.model, fileName |-> f.fileName,
     filePath |-> f.filePath, size |-> SizeText(f.size),
     created |-> Text(f.created), format |-> Text(f.format)]

\* cam.files.forEach: the lines of one camera group
CamRows(cam, records) ==
    [q \in DOMAIN cam.files |-> CsvRow(cam, records[cam.files[q]])]

\* results.cameras.forEach: the lines of the groups, one group after the other
RECURSIVE CamerasRows(_, _)
CamerasRows(cams, records) ==
    IF cams = <<>> THEN <<>>
    ELSE CamRows(Head(cams), records) \o CamerasRows(Tail(cams), records)

\* the data lines of the CSV content of handleExport
ExportRowsWithUnknown(results, records) ==
    CamerasRows(results.cameras, records)
    \o [u \in DOMAIN results.unknownFiles |->
           CsvRow([id |-> None, model |-> ""], records[results.unknownFiles[u]])]
ExportRows(results, records) == CamerasRows(results.cameras, records)

CsvHeader == "Camera ID,Model,File Name,Folder,Size,Timestamp,Format"

\* handleExport(format) on the results the analysis returned, and the
\* 'export-report' handler of main.cjs: the save dialog is canceled, or the
\* content is written to the file the user chose
HandleExport ==
    /\ pc = "returned"
    /\ result # <<>>
    /\ report = <<>>
    /\ \E format \in {"csv", "html"}, canceled \in BOOLEAN :
          report' = << [format |-> format,
                        header |-> IF format = "csv" THEN CsvHeader ELSE "",
                        rows |-> IF format = "csv"
                                 THEN ExportRows(result[1], videoMetadata)
                                 ELSE <<>>,
                        totalFiles |-> IF format = "csv" THEN 0 - 1
                                       ELSE result[1].stats.totalFiles,
                        written |-> ~canceled] >>
    /\ UNCHANGED << canRead, thumbDir, disk, xmlDisk, rootWrites, xmlFiles, xi, pc, events,
                    xmlData, cameraRegistry, videoToCameraMap, videoFiles, i,
                    videoMetadata, gi, cameras, unknown, lookups, grouped,
                    mixedFolders, stats, result, reply >>

Next ==
    \/ StepXml
    \/ StepFindXml
    \/ ParseOneFile
    \/ ParseReturn
    \/ StepRegistry
    \/ StepScan
    \/ StepFindVideos
    \/ StepExtract
    \/ ExtractOne
    \/ StepGroup
    \/ GroupOne
    \/ GroupReturn
    \/ StepMixed
    \/ StepStats
    \/ StepDone
    \/ HandleExport

Spec == Init /\ [][Next]_vars

TypeOK ==
    /\ pc \in {"start", "parseXML", "parseLoop", "registry", "emitScan", "findVideos",
               "emitExtract", "extract", "group", "mixed", "stats", "emitDone",
               "returned", "failed"}
    /\ reply \in {"none", "success", "failure"}
    /\ i \in 0..Len(videoFiles)
    /\ xi \in 0..Len(xmlFiles)
    /\ gi \in 0..Len(videoMetadata)
    /\ Len(result) <= 1

\* ================================================================ properties
\* the canonical key of a path as the specification words it: lower-cased
LowerKey(p) == [dir |-> ToLowerCase(p.dir), name |-> ToLowerCase(p.name)]

\* the positions of the groups of cams that hold the record idx
GroupsHolding(cams, idx) == {g \in DOMAIN cams : idx \in Range(cams[g].files)}

\* the number of places of the result r the record idx appears at
Occurrences(r, idx) ==
    SumSeq([g \in DOMAIN r.cameras |->
               Cardinality({q \in DOMAIN r.cameras[g].files :
                               r.cameras[g].files[q] = idx})])
    + Cardinality({q \in DOMAIN r.unknownFiles : r.unknownFiles[q] = idx})

Returned == pc = "returned" /\ result # <<>>

\* C1: in every returned result each media record is at exactly one place,
\* the files of one camera group or unknownFiles, and stats.totalFiles is the
\* sum of the lengths of the groups' files plus the length of unknownFiles.
C1_Partition ==
    Returned =>
        LET r == result[1]
        IN  /\ \A idx \in DOMAIN videoMetadata : Occurrences(r, idx) = 1
            /\ \A g \in DOMAIN r.cameras :
                  Range(r.cameras[g].files) \subseteq DOMAIN videoMetadata
            /\ Range(r.unknownFiles) \subseteq DOMAIN videoMetadata
            /\ r.stats.totalFiles =
                  SumSeq([g \in DOMAIN r.cameras |-> Len(r.cameras[g].files)])
                  + Len(r.unknownFiles)

C1_Witness ==
    /\ Returned
    /\ Len(result[1].unknownFiles) >= 1
    /\ \E g \in DOMAIN result[1].cameras : Len(result[1].cameras[g].files) >= 1

\* C2: a record with an embedded serial S1 whose canonical path the path
\* index maps to another serial S2 is in the group of S1, not in the group of
\* S2, and the path index was not consulted for it.  (A group is the one
\* stored under the serial's property key.)
C2_Precedence ==
    \A idx \in 1..gi :
        LET rec == videoMetadata[idx]
            key == LowerKey(rec.filePath)
        IN  ( /\ Truthy(rec.serialNumber)
              /\ key \in DOMAIN videoToCameraMap
              /\ videoToCameraMap[key].k # rec.serialNumber.k )
            => /\ idx \notin lookups
               /\ idx \notin Range(unknown)
               /\ \A g \in DOMAIN cameras :
                     idx \in Range(cameras[g].files)
                        <=> cameras[g].key = rec.serialNumber.k
               /\ \E g \in DOMAIN cameras : cameras[g].key = rec.serialNumber.k
               /\ Returned =>
                     \A g \in DOMAIN result[1].cameras :
                        idx \in Range(result[1].cameras[g].files)
                           <=> result[1].cameras[g].id.k = rec.serialNumber.k

C2_Witness ==
    /\ Returned
    /\ \E idx \in 1..gi :
          /\ Truthy(videoMetadata[idx].serialNumber)
          /\ LowerKey(videoMetadata[idx].filePath) \in DOMAIN videoToCameraMap
          /\ videoToCameraMap[LowerKey(videoMetadata[idx].filePath)].k
                # videoMetadata[idx].serialNumber.k
          /\ \E g \in DOMAIN cameras :
                cameras[g].key = videoToCameraMap[LowerKey(videoMetadata[idx].filePath)].k

\* C3: when groupByCamera handles a record without embedded serial whose
\* lower-cased path is a key of the path index, for serial S2, the record gets
\* serial S2, lands in S2's group and not in unknown, and if it had no model
\* it gets the model the serial index holds for S2.
C3_Step ==
    \A idx \in DOMAIN videoMetadata :
        (gi = idx - 1 /\ gi' = idx) =>
            LET video == videoMetadata[idx]
                key == LowerKey(video.filePath)
            IN  (~Truthy(video.serialNumber) /\ key \in DOMAIN videoToCameraMap) =>
                    LET S2 == videoToCameraMap[key]
                        after == videoMetadata'[idx]
                    IN  /\ after.serialNumber = S2
                        /\ idx \notin Range(unknown')
                        /\ \A g \in DOMAIN cameras' :
                              idx \in Range(cameras'[g].files)
                                 <=> cameras'[g].key = S2.k
                        /\ \E g \in DOMAIN cameras' : cameras'[g].key = S2.k
                        /\ video.model = "" =>
                              /\ S2.k \in DOMAIN cameraRegistry
                              /\ after.model = cameraRegistry[S2.k].model

C3_PathFallback == [][C3_Step]_vars

C3_Witness ==
    /\ pc = "group"
    /\ \E idx \in 1..gi :
          /\ idx \in lookups
          /\ LowerKey(videoMetadata[idx].filePath) \in DOMAIN videoToCameraMap
          /\ videoMetadata[idx].filePath # LowerKey(videoMetadata[idx].filePath)
          /\ videoMetadata[idx].model = "FX6"
          /\ GroupsHolding(cameras, idx) # {}

\* C4: a record without serial whose lower-cased path is no key of the path
\* index is in unknownFiles and in no camera group, and every record in
\* unknownFiles has no serial after attribution.
C4_UnknownBucket ==
    /\ \A idx \in 1..gi :
          LET rec == videoMetadata[idx]
          IN  /\ ( /\ ~Truthy(rec.serialNumber)
                   /\ LowerKey(rec.filePath) \notin DOMAIN videoToCameraMap )
                 => /\ idx \in Range(unknown)
                    /\ GroupsHolding(cameras, idx) = {}
                    /\ Returned =>
                          /\ idx \in Range(result[1].unknownFiles)
                          /\ GroupsHolding(result[1].cameras, idx) = {}
              /\ idx \in Range(unknown) => ~Truthy(rec.serialNumber)
    /\ Returned =>
          \A idx \in Range(result[1].unknownFiles) :
             ~Truthy(videoMetadata[idx].serialNumber)

C4_Witness ==
    /\ Returned
    /\ cameraRegistry # EmptyObj
    /\ \E idx \in Range(result[1].unknownFiles) :
          LowerKey(videoMetadata[idx].filePath) \notin DOMAIN videoToCameraMap
    /\ result[1].cameras # <<>>

\* the distinct serial values of the records of a directory that have one
SerialsIn(dir) ==
    {videoMetadata[j].serialNumber :
        j \in {x \in DOMAIN videoMetadata :
                  /\ Truthy(videoMetadata[x].serialNumber)
                  /\ videoMetadata[x].filePath.dir = dir}}

MixedComputed == pc \in {"stats", "emitDone", "returned"}

C6_FailedAlwaysUnknown ==
    Returned =>
        \A idx \in DOMAIN videoMetadata :
            videoMetadata[idx].error =>
                /\ idx \in Range(result[1].unknownFiles)
                /\ GroupsHolding(result[1].cameras, idx) = {}
                /\ result[1].stats.totalFiles = Len(videoMetadata)

\* C6 as amended: a record whose extraction failed (error set, no size, no
\* format) is in unknownFiles and in no group when its lower-cased path is no
\* key of the path index, is in the group of the serial the path index gives
\* and not in unknownFiles when it is one, and is counted in stats.totalFiles
\* in both cases.
C6_FailedByPathIndex ==
    Returned =>
        \A idx \in DOMAIN videoMetadata :
            LET rec == videoMetadata[idx]
                key == LowerKey(rec.filePath)
                r == result[1]
            IN  rec.error =>
                    /\ rec.size = NoSize /\ rec.format = ""
                    /\ r.stats.totalFiles = Len(videoMetadata)
                    /\ Occurrences(r, idx) = 1
                    /\ IF key \in DOMAIN videoToCameraMap
                       THEN /\ idx \notin Range(r.unknownFiles)
                            /\ \A g \in GroupsHolding(r.cameras, idx) :
                                  r.cameras[g].id.k = videoToCameraMap[key].k
                       ELSE /\ idx \in Range(r.unknownFiles)
                            /\ GroupsHolding(r.cameras, idx) = {}

C6_Witness ==
    /\ Returned
    /\ \E idx \in DOMAIN videoMetadata :
          /\ videoMetadata[idx].error
          /\ GroupsHolding(result[1].cameras, idx) # {}
    /\ \E idx \in DOMAIN videoMetadata :
          /\ videoMetadata[idx].error
          /\ idx \in Range(result[1].unknownFiles)

\* C7 as claimed: when the root cannot be listed, analyzeFootage returns no
\* result and the IPC handler does not answer success.
C7_RootFailureRejects ==
    "root" \notin canRead => (pc # "returned" /\ result = <<>> /\ reply # "success")

\* C8: when grouping starts, and from then on, there is one media record per
\* path findVideoFiles returned, in the same order, whatever extraction and
\* thumbnail lookup gave.
GroupingStarted == pc \in {"group", "mixed", "stats", "emitDone", "returned"}

C8_OneRecordPerFile ==
    /\ GroupingStarted =>
          /\ Len(videoMetadata) = Len(videoFiles)
          /\ \A j \in DOMAIN videoFiles : videoMetadata[j].filePath = videoFiles[j]
    /\ pc = "extract" => Len(videoMetadata) = i

C8_Witness ==
    /\ pc = "group"
    /\ gi = 0
    /\ Len(videoFiles) >= 2
    /\ \E j \in DOMAIN videoMetadata : videoMetadata[j].error
    /\ \E j \in DOMAIN videoMetadata :
          ~videoMetadata[j].error /\ videoMetadata[j].thumbnail = ""

\* C9: the progress values passed to the callback never decrease and are
\* integers of 0..100.
C9_ProgressMonotone ==
    /\ \A j \in DOMAIN events : events[j].progress \in 0..100
    /\ \A j, k \in DOMAIN events :
          j < k => events[j].progress <= events[k].progress

C9_Witness ==
    /\ Returned
    /\ Len(videoFiles) >= 2
    /\ Len(events) = 5 + Len(videoFiles)

\* the stage of the specification's state machine a statement belongs to
Stages == << "SIDECAR_SCAN", "VIDEO_DISCOVERY", "METADATA_EXTRACTION",
             "GROUPING", "MIXED_DETECTION", "DONE" >>

StageRank(at) ==
    CASE at \in {"start", "parseXML", "parseLoop", "registry"} -> 1
      [] at \in {"emitScan", "findVideos"} -> 2
      [] at \in {"emitExtract", "extract"} -> 3
      [] at = "group" -> 4
      [] at = "mixed" -> 5
      [] at \in {"stats", "emitDone", "returned"} -> 6
      [] OTHER -> 0

\* the stage a progress event's step tag names
TagRank(step) ==
    CASE step = "xml" -> 1
      [] step = "scan" -> 2
      [] step = "extract" -> 3
      [] step = "group" -> 4
      [] step = "mixed" -> 5
      [] step = "done" -> 6
      [] OTHER -> 0

\* C10 as claimed: a run that returned has emitted, for each of the six
\* stages, at least one progress event with that stage's tag.
C10_EveryStageEmits ==
    Returned =>
        \A rank \in DOMAIN Stages :
            \E j \in DOMAIN events : TagRank(events[j].step) = rank

\* the stages with an event of their own
EmittingRanks == {1, 2, 3, 4, 6}

C10_Order ==
    (pc' # "failed") =>
        /\ StageRank(pc') \in {StageRank(pc), StageRank(pc) + 1}
        /\ \A j \in DOMAIN events' :
              j \notin DOMAIN events => TagRank(events'[j].step) = StageRank(pc')

C10_Events ==
    /\ \A j \in DOMAIN events : TagRank(events[j].step) \in EmittingRanks
    /\ \A j, k \in DOMAIN events :
          j < k => TagRank(events[j].step) <= TagRank(events[k].step)
    /\ pc # "failed" =>
          \A rank \in EmittingRanks :
             rank < StageRank(pc) =>
                \E j \in DOMAIN events : TagRank(events[j].step) = rank
    /\ Returned =>
          \A rank \in EmittingRanks :
             \E j \in DOMAIN events : TagRank(events[j].step) = rank

\* C10 as amended: the statements run stage by stage in the order
\* SIDECAR_SCAN, VIDEO_DISCOVERY, METADATA_EXTRACTION, GROUPING,
\* MIXED_DETECTION, DONE, none re-entered or skipped; every progress event
\* carries the tag of the stage it is emitted in; each stage except
\* MIXED_DETECTION has emitted an event with its own tag before the next
\* stage's first event; MIXED_DETECTION emits none.
C10_StagesInOrder == [][C10_Order]_vars /\ []C10_Events

C10_Witness ==
    /\ Returned
    /\ Len(videoFiles) >= 1
    /\ mixedFolders # <<>>

\* the position in the record sequence of the first record attributed to a group
FirstAttributed(group) ==
    CHOOSE idx \in Range(group.files) : \A other \in Range(group.files) : idx <= other

\* C11 as claimed: the camera groups of the result are in first-attribution
\* order: group A is before group B exactly when the first record attributed
\* to A is before the first record attributed to B, for every serial.
C11_FirstAttributionOrder ==
    Returned =>
        \A a, b \in DOMAIN result[1].cameras :
            a < b <=> FirstAttributed(result[1].cameras[a])
                         < FirstAttributed(result[1].cameras[b])

\* the size a record counts for: its size, 0 when it has none
Counted(idx) == IF videoMetadata[idx].size = NoSize THEN 0 ELSE videoMetadata[idx].size

\* C12: stats.totalSize is the sum of the sizes of all media records (0 for a
\* record without size), whichever group or bucket they are in, and so equals
\* the sum of the groups' totalSize plus the sizes of the records in
\* unknownFiles.
C12_TotalSize ==
    Returned =>
        LET r == result[1]
        IN  /\ r.stats.totalSize = SumSeq([j \in DOMAIN videoMetadata |-> Counted(j)])
            /\ r.stats.totalSize =
                  SumSeq([g \in DOMAIN r.cameras |-> r.cameras[g].totalSize])
                  + SumSeq([u \in DOMAIN r.unknownFiles |-> Counted(r.unknownFiles[u])])

C12_Witness ==
    /\ Returned
    /\ \E u \in DOMAIN result[1].unknownFiles :
          videoMetadata[result[1].unknownFiles[u]].size > 0
    /\ \E g \in DOMAIN result[1].cameras :
          \E idx \in Range(result[1].cameras[g].files) :
             videoMetadata[idx].size = NoSize

\* C13: at every point of groupByCamera, after each append, and in the
\* result, the totalSize of each camera group is the sum of the sizes of the
\* records in its files (0 for a record without size).
C13_GroupSize ==
    /\ \A g \in DOMAIN cameras :
          cameras[g].totalSize =
             SumSeq([q \in DOMAIN cameras[g].files |-> Counted(cameras[g].files[q])])
    /\ Returned =>
          \A g \in DOMAIN result[1].cameras :
             result[1].cameras[g].totalSize =
                SumSeq([q \in DOMAIN result[1].cameras[g].files |->
                           Counted(result[1].cameras[g].files[q])])

C13_Witness ==
    /\ pc = "group"
    /\ \E g \in DOMAIN cameras :
          /\ Len(cameras[g].files) = 2
          /\ videoMetadata[cameras[g].files[1]].size > 0
          /\ videoMetadata[cameras[g].files[2]].size = NoSize

\* a directory the walk lists: it and the root above it can be read
Listable(dir) == "root" \in canRead /\ dir \in canRead

XmlWalked == pc \notin {"start", "parseXML", "failed"}
VideosWalked == pc \in {"emitExtract", "extract", "group", "mixed", "stats",
                        "emitDone", "returned"}

\* what the two walks have found is exactly the files in the directories
\* that can be listed, each once
C14_Found ==
    /\ XmlWalked =>
          /\ Range(xmlFiles) = {d \in xmlDisk : Listable(d.file.dir)}
          /\ Len(xmlFiles) = Cardinality(Range(xmlFiles))
    /\ VideosWalked =>
          /\ Range(videoFiles) = {p \in disk : Listable(p.dir)}
          /\ Len(videoFiles) = Cardinality(Range(videoFiles))

\* the walks always go on to the next statement, and a run fails at no other
\* statement than a call of the progress callback
C14_GoesOn ==
    /\ pc = "parseXML" => pc' = "parseLoop"
    /\ pc = "findVideos" => pc' = "emitExtract"
    /\ pc' = "failed" =>
          pc \in {"start", "emitScan", "emitExtract", "extract", "emitDone"}

\* C14: a directory that cannot be listed, during the descriptor walk or the
\* video walk, does not abort the run: its subtree is skipped, the descriptor
\* and video files of every directory that can be listed are found (those
\* listed after the failing directory too), and the run goes on to return.
C14_UnreadableSkipped == [][C14_GoesOn]_vars /\ []C14_Found

C14_Witness ==
    /\ Returned
    /\ "root" \in canRead /\ "card1" \notin canRead
    /\ \E p \in disk : p.dir = "card1"
    /\ \E d \in xmlDisk : d.file.dir = "card1"
    /\ Join("root", "B1.mov") \in Range(videoFiles)
    /\ \E j \in DOMAIN xmlFiles : xmlFiles[j].file = Join("root", "A1M01.XML")
    /\ result[1].stats.totalFiles = 1

\* ================================================================ the parser alone
\* parseAllXMLInFolder on up to MaxScan files with the descriptor trees the
\* parser can meet: any one or two of the shapes present in one tree, with the identity fields present,
\* empty or missing at each shape's place
SerialAt(shape) ==
    CASE shape = "MediaProfile" -> Str("P1")
      [] shape = "cueupinfo" -> Str("H1")
      [] shape = "DiscMeta" -> Str("D1")
      [] shape = "NonRealTimeMeta" -> Str("N1")
      [] shape = "XAVCMetadata" -> Str("X1")
      [] OTHER -> Str("K1")

ModelAt(shape) ==
    CASE shape = "MediaProfile" -> "PXW-Z90"
      [] shape = "cueupinfo" -> "PDW-700"
      [] shape = "DiscMeta" -> "PDW-850"
      [] shape = "NonRealTimeMeta" -> "ILME-FX6"
      [] shape = "XAVCMetadata" -> "ILCE-7SM3"
      [] OTHER -> "ILME-FX3"

Tree(serial, model) ==
    [file |-> Join("card1", "M00.XML"), malformed |-> FALSE,
     serial |-> serial, model |-> model,
     materials |-> IF "MediaProfile" \in DOMAIN serial
                   THEN << Material("C1.MP4", "C1.jpg") >>
                   ELSE <<>>]

OneShapeTrees ==
    { Tree([s \in {shape} |-> identity[1]], [s \in {shape} |-> identity[2]]) :
        shape \in Shapes,
        identity \in { << None, "model" >>, << Str(""), "model" >>,
                       << Str("serial"), "model" >>, << Str("serial"), "" >>,
                       << Num("7"), "" >> } }

\* "serial" and "model" stand for the values of the shape they are stored at
AtShape(tree) ==
    [tree EXCEPT !.serial = [s \in DOMAIN tree.serial |->
                                IF tree.serial[s] = Str("serial")
                                THEN SerialAt(s) ELSE tree.serial[s]],
                 !.model = [s \in DOMAIN tree.model |->
                               IF tree.model[s] = "model"
                               THEN ModelAt(s) ELSE tree.model[s]]]

TwoShapeTrees ==
    { Tree([s \in present |-> IF s \in having THEN Str("serial") ELSE None],
           [s \in present |-> "model"]) :
        present \in {p \in SUBSET Shapes : Cardinality(p) = 2},
        having \in SUBSET Shapes }

ParserDocs ==
    {AtShape(t) : t \in OneShapeTrees}
    \cup {AtShape(t) : t \in {u \in TwoShapeTrees :
                                \E s \in DOMAIN u.serial : u.serial[s] # None}}
    \cup { Tree([s \in {} |-> None], [s \in {} |-> ""]),
           [Tree([s \in {} |-> None], [s \in {} |-> ""]) EXCEPT !.malformed = TRUE] }

\* the name of the j-th file findXMLFiles lists
ScanName(j) ==
    CASE j = 1 -> "M01.XML"
      [] j = 2 -> "M02.XML"
      [] j = 3 -> "M03.XML"
      [] OTHER -> "M04.XML"

\* parseAllXMLInFolder after findXMLFiles returned the files xmlFiles
InitParser ==
    /\ canRead = Dirs
    /\ thumbDir = EmptyObj
    /\ disk = {}
    /\ xmlDisk = {}
    /\ rootWrites = {}
    /\ \E trees \in BoundedSeq(ParserDocs, MaxScan) :
          xmlFiles = [j \in DOMAIN trees |->
                         [trees[j] EXCEPT !.file = Join("card1", ScanName(j))]]
    /\ xi = 0
    /\ report = <<>>
    /\ pc = "parseLoop"
    /\ events = <<>>
    /\ xmlData = <<>>
    /\ cameraRegistry = EmptyObj
    /\ videoToCameraMap = EmptyObj
    /\ videoFiles = <<>>
    /\ i = 0
    /\ videoMetadata = <<>>
    /\ gi = 0
    /\ cameras = <<>>
    /\ unknown = <<>>
    /\ lookups = {}
    /\ grouped = <<>>
    /\ mixedFolders = <<>>
    /\ stats = NoStats
    /\ result = <<>>
    /\ reply = "none"

NextParser ==
    \/ ParseOneFile
    \/ ParseReturn

SpecParser == InitParser /\ [][NextParser]_vars

\* the order the specification gives for the schema tests
DispatchOrder == << "MediaProfile", "cueupinfo", "DiscMeta", "NonRealTimeMeta",
                    "XAVCMetadata", "Clip" >>

\* the first shape of DispatchOrder that is present in a tree
FirstMatch(doc) ==
    LET at == CHOOSE p \in DOMAIN DispatchOrder :
                  /\ DispatchOrder[p] \in DOMAIN doc.serial
                  /\ \A q \in DOMAIN DispatchOrder :
                        DispatchOrder[q] \in DOMAIN doc.serial => p <= q
    IN  DispatchOrder[at]

\* the positions in xmlData of the records that come from the j-th file
RecordsOf(j) == {k \in DOMAIN xmlData : xmlData[k].sourceFile = xmlFiles[j].file}

\* the position in xmlFiles of the file a record comes from
FileOf(k) == CHOOSE j \in DOMAIN xmlFiles : xmlFiles[j].file = xmlData[k].sourceFile

\* C15: a descriptor that cannot be read or parsed, or whose schema is
\* unknown, gives no identity record and does not abort the scan; the other
\* descriptors of the scan give the records they give alone, in discovery
\* order.
C15_FailedDescriptorSkipped ==
    /\ pc # "failed"
    /\ \A j \in 1..xi :
          (xmlFiles[j].malformed \/ DOMAIN xmlFiles[j].serial = {})
             => RecordsOf(j) = {}
    /\ \A k \in DOMAIN xmlData :
          /\ \E j \in 1..xi : xmlFiles[j].file = xmlData[k].sourceFile
          /\ ~xmlFiles[FileOf(k)].malformed
          /\ xmlData[k] = extractCameraInfo(xmlFiles[FileOf(k)])
    /\ \A j \in 1..xi :
          (~xmlFiles[j].malformed /\ extractCameraInfo(xmlFiles[j]) # Null)
             => Cardinality(RecordsOf(j)) = 1
    /\ \A a, b \in DOMAIN xmlData : a < b => FileOf(a) < FileOf(b)

C15_Witness ==
    /\ pc = "registry"
    /\ Len(xmlFiles) = 2
    /\ xmlFiles[1].malformed
    /\ Len(xmlData) = 1
    /\ xmlData[1].sourceFile = xmlFiles[2].file

\* C16: the schema tests run in the order primary profile, history, disc
\* level, then the three device blocks, and the first shape present decides
\* alone: a record of a primary-profile or device-block tree has the serial
\* and model of that shape and of no other shape of the tree, a device-block
\* record references no paths, and a tree whose first shape is the history
\* or the disc-level one gives no record.
C16_SchemaDispatch ==
    \A j \in 1..xi :
        LET doc == xmlFiles[j]
        IN  (~doc.malformed /\ DOMAIN doc.serial # {}) =>
               LET first == FirstMatch(doc)
               IN  /\ first \in {"cueupinfo", "DiscMeta"} => RecordsOf(j) = {}
                   /\ \A k \in RecordsOf(j) :
                         /\ xmlData[k].serialNumber.k = doc.serial[first].k
                         /\ xmlData[k].model \in {doc.model[first], "Unknown Model"}
                         /\ first # "MediaProfile" => xmlData[k].videoFiles = <<>>
                   /\ doc.serial[first] = None => RecordsOf(j) = {}
                   /\ ( /\ first \in {"MediaProfile", "NonRealTimeMeta",
                                      "XAVCMetadata", "Clip"}
                        /\ doc.serial[first] = SerialAt(first) )
                      => RecordsOf(j) # {}

C16_Witness ==
    /\ pc = "registry"
    /\ \E j \in DOMAIN xmlFiles :
          /\ DOMAIN xmlFiles[j].serial = {"MediaProfile", "NonRealTimeMeta"}
          /\ xmlFiles[j].serial["NonRealTimeMeta"] # None
          /\ \E k \in RecordsOf(j) : xmlData[k].serialNumber = SerialAt("MediaProfile")
    /\ \E j \in DOMAIN xmlFiles :
          /\ DOMAIN xmlFiles[j].serial = {"DiscMeta", "Clip"}
          /\ xmlFiles[j].serial["Clip"] # None
          /\ RecordsOf(j) = {}

\* C17: every identity record has a non-empty string as serialNumber; a tree
\* whose matched shape has no serial gives no record, whatever model or
\* material references it has; a record of a tree with a serial and no model
\* has the model "Unknown Model".
C17_SerialRequired ==
    /\ \A k \in DOMAIN xmlData :
          /\ xmlData[k].serialNumber.t = "str"
          /\ xmlData[k].serialNumber.k # ""
          /\ xmlData[k].model # ""
    /\ \A j \in 1..xi :
          LET doc == xmlFiles[j]
          IN  (~doc.malformed /\ DOMAIN doc.serial # {}) =>
                 LET first == FirstMatch(doc)
                 IN  /\ doc.serial[first] \in {None, Str("")} => RecordsOf(j) = {}
                     /\ doc.model[first] = "" =>
                           \A k \in RecordsOf(j) : xmlData[k].model = "Unknown Model"

C17_Witness ==
    /\ pc = "registry"
    /\ \E j \in DOMAIN xmlFiles :
          /\ DOMAIN xmlFiles[j].serial = {"MediaProfile"}
          /\ xmlFiles[j].serial["MediaProfile"] = None
          /\ xmlFiles[j].model["MediaProfile"] # ""
          /\ xmlFiles[j].materials # <<>>
          /\ RecordsOf(j) = {}
    /\ \E k \in DOMAIN xmlData :
          /\ xmlData[k].model = "Unknown Model"
          /\ xmlData[k].serialNumber = Str("7")

\* the files under the root stay what they are
C18_Frame == disk' = disk /\ xmlDisk' = xmlDisk /\ canRead' = canRead

RowsBefore(cams, g) == SumSeq([h \in 1..(g - 1) |-> Len(cams[h].files)])

CsvExported == report # <<>> /\ report[1].format = "csv"

\* C19: the CSV has one data line per camera group and file of that group,
\* group after group and file after file, with the group's id and model and
\* the file's name, path, size, created and format; the number of data lines
\* is the sum of the lengths of the groups' files, and no line is for a
\* record of unknownFiles.
C19_CsvRows ==
    CsvExported =>
        LET cams == result[1].cameras
            rows == report[1].rows
        IN  /\ Len(rows) = SumSeq([g \in DOMAIN cams |-> Len(cams[g].files)])
            /\ \A g \in DOMAIN cams :
                  \A q \in DOMAIN cams[g].files :
                     LET row == rows[RowsBefore(cams, g) + q]
                         f == videoMetadata[cams[g].files[q]]
                     IN  /\ row.cameraId = cams[g].id.k
                         /\ row.model = cams[g].model
                         /\ row.fileName = f.fileName
                         /\ row.filePath = f.filePath
                         /\ row.size = (IF f.size = NoSize THEN "undefined"
                                        ELSE ToString(f.size))
                         /\ row.created = (IF f.created = "" THEN "undefined"
                                           ELSE f.created)
                         /\ row.format = (IF f.format = "" THEN "undefined"
                                          ELSE f.format)
            /\ \A u \in DOMAIN result[1].unknownFiles :
                  \A n \in DOMAIN rows :
                     rows[n].filePath # videoMetadata[result[1].unknownFiles[u]].filePath

C19_Witness ==
    /\ CsvExported
    /\ Len(result[1].cameras) = 1
    /\ Len(result[1].cameras[1].files) = 1
    /\ Len(result[1].unknownFiles) = 1
    /\ Len(report[1].rows) = 1

RegistryBuilt == pc \notin {"parseLoop", "registry"}

\* the identity records that carry the serial key, and those that reference
\* a path with the canonical key, by position in processing order
WithSerial(key) == {k \in DOMAIN xmlData : xmlData[k].serialNumber.k = key}
WithPath(key) ==
    {k \in DOMAIN xmlData :
        \E q \in DOMAIN xmlData[k].videoFiles : LowerKey(xmlData[k].videoFiles[q]) = key}

Latest(positions) == CHOOSE k \in positions : \A other \in positions : other <= k

\* C20: the serial index holds, for each serial of an identity record, the
\* last record in processing order with that serial, and the path index maps
\* each canonical key of a referenced path to the serial of the last record
\* that references it; a serial or key of one record only has that record's
\* entry, and there are no other entries.
C20_LastWriteWins ==
    RegistryBuilt =>
        /\ DOMAIN cameraRegistry = {xmlData[k].serialNumber.k : k \in DOMAIN xmlData}
        /\ \A key \in DOMAIN cameraRegistry :
              cameraRegistry[key] = xmlData[Latest(WithSerial(key))]
        /\ DOMAIN videoToCameraMap =
              UNION {{LowerKey(xmlData[k].videoFiles[q]) : q \in DOMAIN xmlData[k].videoFiles} :
                        k \in DOMAIN xmlData}
        /\ \A key \in DOMAIN videoToCameraMap :
              videoToCameraMap[key] = xmlData[Latest(WithPath(key))].serialNumber

C20_Witness ==
    /\ pc = "emitScan"
    /\ \E key \in DOMAIN cameraRegistry : Cardinality(WithSerial(key)) = 2
    /\ \E key \in DOMAIN cameraRegistry : Cardinality(WithSerial(key)) = 1
    /\ \E key \in DOMAIN videoToCameraMap :
          /\ Cardinality(WithPath(key)) = 2
          /\ \E a, b \in WithPath(key) :
                xmlData[a].serialNumber # xmlData[b].serialNumber
    /\ \E key \in DOMAIN videoToCameraMap : Cardinality(WithPath(key)) = 1

\* the media extensions the specification supports, lower-cased
SupportedExtensions == {".mp4", ".mxf", ".mov"}

HasSupportedExtension(p) == ToLowerCase(ExtName(p.name)) \in SupportedExtensions

\* C21 as claimed: every path an identity record references, and every key
\* of the path index, has a supported media extension; a proxy URI with
\* another extension is in neither.
C21_OnlySupportedExtensions ==
    /\ \A k \in DOMAIN xmlData :
          \A q \in DOMAIN xmlData[k].videoFiles :
             HasSupportedExtension(xmlData[k].videoFiles[q])
    /\ \A key \in DOMAIN videoToCameraMap : HasSupportedExtension(key)

\* a record that has a model keeps it over a step
C22_Step ==
    \A idx \in DOMAIN videoMetadata :
        (idx \in DOMAIN videoMetadata' /\ videoMetadata[idx].model # "")
           => videoMetadata'[idx].model = videoMetadata[idx].model

\* C22 as claimed: attribution, by embedded serial or by path mapping, gives
\* the registry's model only to a record that has no model of its own; a
\* record with a model keeps it.
C22_ModelKept == [][C22_Step]_vars

\* the model a group gets from the record that creates it: the record's own
\* model, else the registry's model for the serial, else "Unknown Model"
ModelByPrecedence(own, key) ==
    IF own # "" THEN own
    ELSE IF key \in DOMAIN cameraRegistry THEN cameraRegistry[key].model
    ELSE "Unknown Model"

C23_Step ==
    \A g \in DOMAIN cameras' :
        IF \E h \in DOMAIN cameras : cameras[h].key = cameras'[g].key
        THEN \A h \in DOMAIN cameras :
                cameras[h].key = cameras'[g].key => cameras'[g].model = cameras[h].model
        ELSE /\ gi + 1 \in DOMAIN videoMetadata
             /\ cameras'[g].files = << gi + 1 >>
             /\ cameras'[g].model =
                   ModelByPrecedence(videoMetadata[gi + 1].model, cameras'[g].key)

\* C23 as claimed: a group's model is set when the first record attributed
\* to its serial creates it, to that record's own model, else the registry's
\* model for the serial, else "Unknown Model", and no later record changes it.
C23_GroupModel == [][C23_Step]_vars

\* ================================================================ the progress of the extraction loop
\* the extraction loop of analyzeFootage over n discovered files, n up to
\* MaxCount, as far as its progress events go: what extractMetadata and
\* generateThumbnail give has no part in the percentage
NumberedFile(j) == Join("root", ToString(j))

InitProgress ==
    /\ canRead = Dirs
    /\ thumbDir = EmptyObj
    /\ disk = {}
    /\ xmlDisk = {}
    /\ rootWrites = {}
    /\ xmlFiles = <<>>
    /\ xi = 0
    /\ report = <<>>
    /\ pc = "extract"
    /\ events = << [step |-> "xml", progress |-> 0, currentFile |-> NoFile],
                   [step |-> "scan", progress |-> 10, currentFile |-> NoFile],
                   [step |-> "extract", progress |-> 20, currentFile |-> NoFile] >>
    /\ xmlData = <<>>
    /\ cameraRegistry = EmptyObj
    /\ videoToCameraMap = EmptyObj
    /\ \E n \in 1..MaxCount : videoFiles = [j \in 1..n |-> NumberedFile(j)]
    /\ i = 0
    /\ videoMetadata = <<>>
    /\ gi = 0
    /\ cameras = <<>>
    /\ unknown = <<>>
    /\ lookups = {}
    /\ grouped = <<>>
    /\ mixedFolders = <<>>
    /\ stats = NoStats
    /\ result = <<>>
    /\ reply = "none"

\* lines 162 and 176-182: the progress event of one iteration
ReportProgress ==
    /\ pc = "extract"
    /\ i < Len(videoFiles)
    /\ Emit([step |-> "extract", progress |-> Percentage(i, Len(videoFiles)),
             currentFile |-> videoFiles[i + 1]], "extract")
    /\ i' = i + 1
    /\ UNCHANGED << canRead, thumbDir, disk, xmlDisk, rootWrites, xmlFiles, xi, report,
                    xmlData, cameraRegistry, videoToCameraMap, videoFiles,
                    videoMetadata, gi, cameras, unknown, lookups, grouped,
                    mixedFolders, stats, result >>

NextProgress == ReportProgress

SpecProgress == InitProgress /\ [][NextProgress]_vars

\* the events of the extraction loop: those that name a file
FileEvents == SelectSeq(events, LAMBDA e : e.currentFile # NoFile)

\* num / den rounded to the nearest integer, a half upwards
Rounded(num, den) ==
    CHOOSE r \in 0..(num + 1) :
        2 * den * r <= 2 * num + den /\ 2 * num + den < 2 * den * (r + 1)

\* C24: with n >= 1 discovered files the extraction loop has emitted one
\* event per completed file, the j-th naming the j-th file with percent
\* 20 + round(60 * j / n), a value of 20..80, and 80 for the last file.
C24_PerFilePercent ==
    (pc # "failed" /\ videoFiles # <<>>) =>
        LET n == Len(videoFiles)
        IN  /\ Len(FileEvents) = i
            /\ \A j \in 1..i :
                  /\ FileEvents[j].step = "extract"
                  /\ FileEvents[j].currentFile = videoFiles[j]
                  /\ FileEvents[j].progress = 20 + Rounded(60 * j, n)
                  /\ FileEvents[j].progress \in 20..80
                  /\ j = n => FileEvents[j].progress = 80

C24_Witness ==
    /\ pc = "extract"
    /\ Len(videoFiles) = 8
    /\ i = 8
    /\ FileEvents[1].progress = 28
    /\ FileEvents[8].progress = 80

\* the records of a directory the path index gave a serial, and those with
\* an embedded serial
PathMappedIn(dir) ==
    {idx \in lookups :
        /\ videoMetadata[idx].filePath.dir = dir
        /\ LowerKey(videoMetadata[idx].filePath) \in DOMAIN videoToCameraMap}
EmbeddedIn(dir) ==
    {idx \in DOMAIN videoMetadata \ lookups :
        /\ videoMetadata[idx].filePath.dir = dir
        /\ Truthy(videoMetadata[idx].serialNumber)}

\* C25: mixed-folder detection sees the serials path mapping assigned: a
\* directory with a record the path index maps to S1 and a record with an
\* embedded serial S3, another one, is reported, and its report lists S1
\* and S3.
C25_MixedSeesPathMapped ==
    MixedComputed =>
        \A dir \in Dirs :
            \A a \in PathMappedIn(dir), b \in EmbeddedIn(dir) :
                LET S1 == videoToCameraMap[LowerKey(videoMetadata[a].filePath)]
                    S3 == videoMetadata[b].serialNumber
                IN  S1.k # S3.k =>
                       \E m \in DOMAIN mixedFolders :
                          /\ mixedFolders[m].folder = dir
                          /\ {S1, S3} \subseteq Range(mixedFolders[m].cameras)
                          /\ Returned => result[1].mixedFolders[m] = mixedFolders[m]

C25_Witness ==
    /\ Returned
    /\ PathMappedIn("card1") # {}
    /\ EmbeddedIn("card1") # {}
    /\ Len(result[1].mixedFolders) = 1
    /\ result[1].mixedFolders[1].folder = "card1"
    /\ Range(result[1].mixedFolders[1].cameras) = {Str("S1"), Str("S3")}

\* the upper-cased extension of a record's file name, as the specification
\* words the fallback
UpperExtension(rec) == ExtUpper(rec.fileName)

\* the number of records counted under key when each record is counted
\* under keyOf[idx]
CountedUnder(keyOf, key) == Cardinality({idx \in DOMAIN videoMetadata : keyOf[idx] = key})

StatsComputed == pc \in {"emitDone", "returned"}

\* C26 as claimed: formatDistribution counts every record once, under its
\* format, or under the upper-cased extension of its file name when it has
\* no format (a record whose extraction failed included).
C26_FallbackToExtension ==
    StatsComputed =>
        LET keyOf == [idx \in DOMAIN videoMetadata |->
                         IF videoMetadata[idx].format # ""
                         THEN videoMetadata[idx].format
                         ELSE UpperExtension(videoMetadata[idx])]
        IN  /\ DOMAIN stats.formatDistribution = Range(keyOf)
            /\ \A key \in DOMAIN stats.formatDistribution :
                  stats.formatDistribution[key] = CountedUnder(keyOf, key)

\* C26 as amended: formatDistribution counts every record once: a record
\* with a format under that format (for an extracted record the file type
\* the metadata names, else the upper-cased extension of the file name), a
\* record without format, which is a record whose extraction failed, under
\* "UNKNOWN".
C26_FallbackToUnknown ==
    StatsComputed =>
        LET keyOf == [idx \in DOMAIN videoMetadata |->
                         IF videoMetadata[idx].format # ""
                         THEN videoMetadata[idx].format
                         ELSE "UNKNOWN"]
        IN  /\ DOMAIN stats.formatDistribution = Range(keyOf)
            /\ \A key \in DOMAIN stats.formatDistribution :
                  stats.formatDistribution[key] = CountedUnder(keyOf, key)
            /\ SumSeq([idx \in DOMAIN videoMetadata |->
                          IF keyOf[idx] \in DOMAIN stats.formatDistribution
                          THEN 1 ELSE 0]) = Len(videoMetadata)
            /\ \A idx \in DOMAIN videoMetadata :
                  /\ videoMetadata[idx].format = "" <=> videoMetadata[idx].error
                  /\ ~videoMetadata[idx].error =>
                        videoMetadata[idx].format
                           \in {"MP4", UpperExtension(videoMetadata[idx])}
            /\ Returned => result[1].stats.formatDistribution = stats.formatDistribution

C26_Witness ==
    /\ Returned
    /\ DOMAIN result[1].stats.formatDistribution = {"UNKNOWN", "MXF"}
    /\ \E idx \in DOMAIN videoMetadata :
          videoMetadata[idx].error /\ videoMetadata[idx].fileName = "C1.MP4"


\* a sequence of record indices that follows the record sequence: each index
\* names a record, and the indices increase
InRecordOrder(indices) ==
    /\ \A j \in DOMAIN indices : indices[j] \in DOMAIN videoMetadata
    /\ \A j, k \in DOMAIN indices : j < k => indices[j] < indices[k]

\* C27: discovery order is preserved: the j-th record is the record of the
\* j-th path findVideoFiles returned, and the files of every camera group
\* and unknownFiles list records in the order of the record sequence, each
\* record at most once.
C27_DiscoveryOrder ==
    /\ Len(videoMetadata) <= Len(videoFiles)
    /\ \A j \in DOMAIN videoMetadata : videoMetadata[j].filePath = videoFiles[j]
    /\ pc \in {"group", "mixed", "stats", "emitDone", "returned"} =>
          /\ \A g \in DOMAIN cameras : InRecordOrder(cameras[g].files)
          /\ InRecordOrder(unknown)
    /\ Returned =>
          /\ Len(videoMetadata) = Len(videoFiles)
          /\ \A g \in DOMAIN result[1].cameras : InRecordOrder(result[1].cameras[g].files)
          /\ InRecordOrder(result[1].unknownFiles)

C27_Witness ==
    /\ Returned
    /\ result[1].unknownFiles = << 1, 2 >>
    /\ videoMetadata[1].filePath # videoMetadata[2].filePath


\* the camera groups of the result that have a file in the folder
GroupsIn(folder) ==
    {g \in DOMAIN result[1].cameras :
        \E j \in DOMAIN result[1].cameras[g].files :
            videoMetadata[result[1].cameras[g].files[j]].filePath.dir = folder}

\* C28: grouping and mixed-folder detection agree on camera identity: each
\* serial a mixed-folder report lists is the id of exactly one camera group
\* with a file in that folder, the report lists as many serials as there
\* are camera groups with a file in that folder (at least 2), and
\* cameraCount is the length of the list; also when one serial arrives as a
\* number from embedded metadata and as a string from a sidecar.
C28_SameCameraIdentity ==
    Returned =>
        \A m \in DOMAIN result[1].mixedFolders :
            LET entry == result[1].mixedFolders[m]
            IN  /\ \A s \in DOMAIN entry.cameras :
                      Cardinality({g \in GroupsIn(entry.folder) :
                                      result[1].cameras[g].id = entry.cameras[s]}) = 1
                /\ Len(entry.cameras) = Cardinality(GroupsIn(entry.folder))
                /\ Len(entry.cameras) >= 2
                /\ entry.cameraCount = Len(entry.cameras)


\* ---------------------------------------------------------------- thumbnail.cjs, the directory of generated thumbnails
\* Spec draws the outcome of generateThumbnail; SpecThumbs computes it from
\* the files next to the video and from the content of THUMBNAIL_DIR, which
\* outlives a run. An image is named by the video it is a frame of
\* (NoFile: null).

\* two cards that both hold a clip C1.MP4
ThumbVideos == << Join("card1", "C1.MP4"), Join("card1", "C2.MXF"), Join("card2", "C1.MP4") >>

\* the thumbnails the camera may have written next to its clips
ThumbSidecars == { Join("card1", "C1.JPG"), Join("card2", "C1.JPG") }

\* `${videoName}.JPG`, the first of the potential names
SidecarName(videoPath) ==
    CASE videoPath.name = "C1.MP4" -> "C1.JPG"
      [] videoPath.name = "C2.MXF" -> "C2.JPG"
      [] OTHER -> ".JPG"

\* the clip a camera-written thumbnail shows: the clip of that base name in
\* the same folder
ShownBy(thumbPath) ==
    CASE thumbPath.name = "C1.JPG" -> Join(thumbPath.dir, "C1.MP4")
      [] thumbPath.name = "C2.JPG" -> Join(thumbPath.dir, "C2.MXF")
      [] OTHER -> NoFile

\* the first candidate that exists, null when there is none
findExistingThumbnail(videoPath, files) ==
    LET thumbPath == Join(videoPath.dir, SidecarName(videoPath))
    IN  IF thumbPath \in files THEN thumbPath ELSE NoFile

\* generateThumbnail on the files of the disk and the content dir of
\* THUMBNAIL_DIR: the image it resolves to and the content it leaves.
\* readOk: fs.readFile succeeds; ffmpegEnds: ffmpeg emits 'end', not 'error'
generateThumbnailIn(videoPath, files, dir, readOk, ffmpegEnds) ==
    LET existingThumbPath == findExistingThumbnail(videoPath, files)
        filename == ThumbFileName(videoPath)
    IN  IF existingThumbPath # NoFile
        THEN [thumbnail |-> IF readOk THEN ShownBy(existingThumbPath) ELSE NoFile,
              thumbDir |-> dir]
        ELSE IF filename \in DOMAIN dir /\ readOk
             THEN [thumbnail |-> dir[filename], thumbDir |-> dir]
             ELSE IF ffmpegEnds
                  THEN [thumbnail |-> IF readOk THEN videoPath ELSE NoFile,
                        thumbDir |-> Put(dir, filename, videoPath)]
                  ELSE [thumbnail |-> NoFile, thumbDir |-> dir]

\* the reads of ExifTool that name no camera
PlainReads == {read \in ExifReads : read.SerialNumber = None /\ read.InternalSerialNumber = None /\ read.Model = ""}

FirstEvents ==
    << [step |-> "xml", progress |-> 0, currentFile |-> NoFile],
       [step |-> "scan", progress |-> 10, currentFile |-> NoFile],
       [step |-> "extract", progress |-> 20, currentFile |-> NoFile] >>

InitThumbs ==
    /\ canRead = {"card1", "card2"}
    /\ thumbDir = EmptyObj
    /\ \E files \in SUBSET (Range(ThumbVideos) \cup ThumbSidecars) :
          /\ disk = files
          /\ videoFiles = SelectSeq(ThumbVideos, LAMBDA p : p \in files)
    /\ xmlDisk = {}
    /\ rootWrites = {}
    /\ xmlFiles = <<>>
    /\ xi = 0
    /\ report = <<>>
    /\ pc = "extract"
    /\ events = FirstEvents
    /\ xmlData = <<>>
    /\ cameraRegistry = EmptyObj
    /\ videoToCameraMap = EmptyObj
    /\ i = 0
    /\ videoMetadata = <<>>
    /\ gi = 0
    /\ cameras = <<>>
    /\ unknown = <<>>
    /\ lookups = {}
    /\ grouped = <<>>
    /\ mixedFolders = <<>>
    /\ stats = NoStats
    /\ result = <<>>
    /\ reply = "none"

\* analyzeFootage lines 162-183: one iteration of the extraction loop
ThumbExtractOne ==
    /\ pc = "extract"
    /\ i < Len(videoFiles)
    /\ \E read \in PlainReads, readOk \in BOOLEAN, ffmpegEnds \in BOOLEAN :
          LET metadata == extractMetadata(videoFiles[i + 1], read)
              made == generateThumbnailIn(videoFiles[i + 1], disk, thumbDir,
                                          readOk, ffmpegEnds)
          IN  /\ videoMetadata' =
                    IF metadata # <<>>
                    THEN Append(videoMetadata,
                                [metadata[1] EXCEPT !.thumbnail = made.thumbnail])
                    ELSE videoMetadata
              /\ thumbDir' = made.thumbDir
    /\ Emit([step |-> "extract", progress |-> Percentage(i, Len(videoFiles)),
             currentFile |-> videoFiles[i + 1]], "extract")
    /\ i' = i + 1
    /\ UNCHANGED << canRead, disk, xmlDisk, rootWrites, xmlFiles, xi, report,
                    xmlData, cameraRegistry, videoToCameraMap, videoFiles, gi,
                    cameras, unknown, lookups, grouped, mixedFolders, stats,
                    result >>

\* main.cjs lines 77-88: the handler is invoked again on the same folder;
\* THUMBNAIL_DIR keeps its files
ThumbRunAgain ==
    /\ \/ pc = "extract" /\ i >= Len(videoFiles)
       \/ pc = "failed"
    /\ pc' = "extract"
    /\ events' = FirstEvents
    /\ i' = 0
    /\ videoMetadata' = <<>>
    /\ reply' = "none"
    /\ UNCHANGED << canRead, thumbDir, disk, xmlDisk, rootWrites, xmlFiles, xi,
                    report, xmlData, cameraRegistry, videoToCameraMap,
                    videoFiles, gi, cameras, unknown, lookups, grouped,
                    mixedFolders, stats, result >>

NextThumbs == ThumbExtractOne \/ ThumbRunAgain

SpecThumbs == InitThumbs /\ [][NextThumbs]_vars

\* C29: the thumbnail attached to a media record is derived from the
\* record's own video file: the generated-thumbnail cache never returns for
\* one video the image generated from another, within one run or across
\* runs, also for videos of different folders with the same base name.
C29_OwnThumbnail ==
    \A j \in DOMAIN videoMetadata :
        videoMetadata[j].thumbnail \in {NoFile, videoMetadata[j].filePath}


\* the run has settled: analyzeFootage has returned or thrown
Settled == pc \in {"returned", "failed"}

DoneEvents == {j \in DOMAIN events : events[j].step = "done" \/ events[j].progress = 100}

C30_Events ==
    /\ Cardinality(DoneEvents) <= 1
    /\ \A j \in DoneEvents :
          /\ j = Len(events)
          /\ events[j].step = "done"
          /\ events[j].progress = 100
    /\ DoneEvents # {} <=> Returned
    /\ pc = "failed" => DoneEvents = {} /\ result = <<>>

C30_Step == Settled => events' = events

\* C30: the 'done' event (percent 100) is sent at most once in a run, is
\* the last progress event, and is sent exactly when analyzeFootage returns
\* a result; a run that fails has sent no 'done' event and no event of
\* percent 100; no progress event is sent once analyzeFootage has settled.
C30_DoneExactlyOnReturn == [][C30_Step]_vars /\ []C30_Events

C30_Witness ==
    /\ Returned
    /\ DoneEvents = {Len(events)}
    /\ Len(events) >= 6
    /\ report # <<>>

====
